---------------------------- MODULE Spec2Model ----------------------------
(***************************************************************************)
(* A model of the MergeFiles tool: processFiles.js (header discovery,      *)
(* sheet cleaning, grouping, the item / alt-id join, UPC formatting, the   *)
(* combined workbook) and the page script that drives it (file selection,  *)
(* the two buttons, the asynchronous runs).                                *)
(*                                                                         *)
(* JavaScript values are records [t, s, n]: t is the type tag, s the       *)
(* characters of a string (a sequence of one-character strings), n the     *)
(* value of a number.  Numbers are integers; the decimal point and the     *)
(* exponent of a numeric literal are outside the modelled alphabet.        *)
(***************************************************************************)
EXTENDS Integers, Sequences, FiniteSets, TLC

VARIABLES
    pc,                 \* position of the function call under check
    arg,                \* its argument(s)
    res,                \* its result
    files,              \* merge: the decoded grid of every input file, in order
    nread,              \* merge: number of files read so far
    sheets,             \* merge: the non-empty grids pushed so far
    mergedList,         \* merge: the entries returned
    combinedHeader,     \* combineMergedFiles: the local header
    allRows,            \* combineMergedFiles: the local allRows
    loaded,             \* page: DOMContentLoaded has run
    selectedFiles,      \* page: number of selected files
    buttonDisabled,     \* page: the buttonDisabled flag
    mergeBtnDisabled,   \* page: mergeBtn.disabled
    masterBtnDisabled,  \* page: masterBtn.disabled
    mergeSpinner,       \* page: mergeSpinner is shown
    masterSpinner,      \* page: masterSpinner is shown
    status,             \* page: the status line
    mergeRuns,          \* page: downloadMergedFiles runs awaiting merge
    masterRuns          \* page: mergeAndDownloadMaster runs awaiting combineMergedFiles

fnVars == <<pc, arg, res>>
mergeVars == <<files, nread, sheets, mergedList, combinedHeader, allRows>>
pageVars == <<loaded, selectedFiles, buttonDisabled, mergeBtnDisabled, masterBtnDisabled,
              mergeSpinner, masterSpinner, status, mergeRuns, masterRuns>>
vars == <<pc, arg, res, files, nread, sheets, mergedList, combinedHeader, allRows,
          loaded, selectedFiles, buttonDisabled, mergeBtnDisabled, masterBtnDisabled, mergeSpinner,
          masterSpinner, status, mergeRuns, masterRuns>>

---------------------------------------------------------------------------
(* JavaScript values *)

Undef == [t |-> "undef", s |-> <<>>, n |-> 0]
Null == [t |-> "null", s |-> <<>>, n |-> 0]
NaN == [t |-> "nan", s |-> <<>>, n |-> 0]
Str(chars) == [t |-> "str", s |-> chars, n |-> 0]
Num(k) == [t |-> "num", s |-> <<>>, n |-> k]

Digits == <<"0", "1", "2", "3", "4", "5", "6", "7", "8", "9">>

\* the value of each decimal digit
DigitValue ==
    ("0" :> 0) @@ ("1" :> 1) @@ ("2" :> 2) @@ ("3" :> 3) @@ ("4" :> 4)
        @@ ("5" :> 5) @@ ("6" :> 6) @@ ("7" :> 7) @@ ("8" :> 8) @@ ("9" :> 9)

\* the lower-case letter of each upper-case letter
LowerOf ==
    ("A" :> "a") @@ ("B" :> "b") @@ ("C" :> "c") @@ ("D" :> "d") @@ ("E" :> "e") @@ ("F" :> "f")
        @@ ("G" :> "g") @@ ("H" :> "h") @@ ("I" :> "i") @@ ("J" :> "j") @@ ("K" :> "k") @@ ("L" :> "l")
        @@ ("M" :> "m") @@ ("N" :> "n") @@ ("O" :> "o") @@ ("P" :> "p") @@ ("Q" :> "q") @@ ("R" :> "r")
        @@ ("S" :> "s") @@ ("T" :> "t") @@ ("U" :> "u") @@ ("V" :> "v") @@ ("W" :> "w") @@ ("X" :> "x")
        @@ ("Y" :> "y") @@ ("Z" :> "z")

IsDigit(c) == c \in DOMAIN DigitValue
DigitVal(c) == DigitValue[c]
IsSpace(c) == c = " "

\* v is falsy: the left operand of (v || x) that yields x
Falsy(v) ==
    \/ v.t \in {"undef", "null", "nan"}
    \/ v.t = "str" /\ v.s = <<>>
    \/ v.t = "num" /\ v.n = 0

\* v == null
IsNullish(v) == v.t \in {"undef", "null"}

RECURSIVE NatToStr(_)
NatToStr(k) ==
    IF k < 10 THEN <<Digits[k + 1]>>
    ELSE Append(NatToStr(k \div 10), Digits[(k % 10) + 1])

\* String(v), v.toString()
ToStr(v) ==
    CASE v.t = "str" -> v.s
      [] v.t = "num" -> IF v.n < 0 THEN <<"-">> \o NatToStr(-v.n) ELSE NatToStr(v.n)
      [] v.t = "nan" -> <<"N", "a", "N">>
      [] v.t = "null" -> <<"n", "u", "l", "l">>
      [] OTHER -> <<"u", "n", "d", "e", "f", "i", "n", "e", "d">>

\* s.toLowerCase()
ToLowerCase(s) ==
    [i \in DOMAIN s |-> IF s[i] \in DOMAIN LowerOf THEN LowerOf[s[i]] ELSE s[i]]

RECURSIVE TrimStart(_)
TrimStart(s) ==
    IF s # <<>> /\ IsSpace(Head(s)) THEN TrimStart(Tail(s)) ELSE s

RECURSIVE TrimEnd(_)
TrimEnd(s) ==
    IF s # <<>> /\ IsSpace(s[Len(s)]) THEN TrimEnd(SubSeq(s, 1, Len(s) - 1)) ELSE s

\* s.trim()
Trim(s) == TrimEnd(TrimStart(s))

\* s.slice(-k)
SliceLast(s, k) == IF Len(s) <= k THEN s ELSE SubSeq(s, Len(s) - k + 1, Len(s))

\* s.padStart(k, c)
RECURSIVE PadStart(_, _, _)
PadStart(s, k, c) == IF Len(s) >= k THEN s ELSE PadStart(<<c>> \o s, k, c)

\* the leading run of decimal digits of s
RECURSIVE DigitPrefix(_)
DigitPrefix(s) ==
    IF s # <<>> /\ IsDigit(Head(s)) THEN <<Head(s)>> \o DigitPrefix(Tail(s)) ELSE <<>>

RECURSIVE StrToNat(_)
StrToNat(s) ==
    IF s = <<>> THEN 0 ELSE 10 * StrToNat(SubSeq(s, 1, Len(s) - 1)) + DigitVal(s[Len(s)])

\* parseInt(s, 10) and parseFloat(s) on a string: leading white space, an optional
\* sign, then the longest run of digits; NaN when there is none
ParseDecimal(s) ==
    LET t == TrimStart(s)
        neg == t # <<>> /\ Head(t) = "-"
        u == IF t # <<>> /\ Head(t) \in {"-", "+"} THEN Tail(t) ELSE t
        d == DigitPrefix(u)
    IN  IF d = <<>> THEN NaN
        ELSE Num(IF neg THEN -StrToNat(d) ELSE StrToNat(d))

\* parseFloat(v): the argument is converted to a string first
ParseFloat(v) == IF v.t = "num" THEN v ELSE ParseDecimal(ToStr(v))

\* (parseFloat(v) || 0)
ParseFloatOr0(v) == IF Falsy(ParseFloat(v)) THEN 0 ELSE ParseFloat(v).n

\* a + b and a * b on numbers
NumAdd(a, b) == IF a.t = "nan" \/ b.t = "nan" THEN NaN ELSE Num(a.n + b.n)
NumMul(a, b) == IF a.t = "nan" \/ b.t = "nan" THEN NaN ELSE Num(a.n * b.n)

\* Number(s) for a string: white space trimmed, "" is 0, digits with an optional sign
StrToNumber(s) ==
    LET t == Trim(s)
        u == IF t # <<>> /\ Head(t) \in {"-", "+"} THEN Tail(t) ELSE t
    IN  IF t = <<>> THEN Num(0)
        ELSE IF u # <<>> /\ DigitPrefix(u) = u
             THEN Num(IF Head(t) = "-" THEN -StrToNat(u) ELSE StrToNat(u))
             ELSE NaN

\* a == b
LooseEq(a, b) ==
    CASE IsNullish(a) \/ IsNullish(b) -> IsNullish(a) /\ IsNullish(b)
      [] a.t = "nan" \/ b.t = "nan" -> FALSE
      [] a.t = b.t -> a = b
      [] a.t = "num" -> StrToNumber(b.s) = a
      [] OTHER -> StrToNumber(a.s) = b

\* row[idx] with idx counted from 0; a cell past the end of the row is undefined
Cell(row, idx) == IF idx + 1 \in DOMAIN row THEN row[idx + 1] ELSE Undef

Min(a, b) == IF a < b THEN a ELSE b

---------------------------------------------------------------------------
(* formatUPC *)

\* calculateChecksum(upcStr)
RECURSIVE ChecksumTotal(_, _)
ChecksumTotal(upcStr, i) ==
    IF i = 11 THEN Num(0)
    ELSE LET ch == IF i + 1 \in DOMAIN upcStr THEN <<upcStr[i + 1]>> ELSE <<"0">>
             term == NumMul(Num(IF i % 2 = 0 THEN 3 ELSE 1), ParseDecimal(ch))
         IN  NumAdd(term, ChecksumTotal(upcStr, i + 1))

calculateChecksum(upcStr) ==
    LET padded == PadStart(upcStr, 11, "0")
        total == ChecksumTotal(padded, 0)
    IN  IF total.t = "nan" THEN NaN ELSE Num((10 - (total.n % 10)) % 10)

formatUPC(upc) ==
    IF IsNullish(upc) \/ upc = Str(<<>>) THEN Str(<<>>)
    ELSE LET upcStr == Trim(ToStr(upc))
             base == PadStart(SliceLast(upcStr, 11), 11, "0")
             checksum == calculateChecksum(base)
         IN  Str(base \o ToStr(checksum))

---------------------------------------------------------------------------
(* Grid utilities *)

MaxRows == 20

\* the cell test of findHeaderRow: (cell || '').toString().toLowerCase().trim()
NormCell(cell) == IF Falsy(cell) THEN <<>> ELSE Trim(ToLowerCase(ToStr(cell)))

RowHasName(row, name) == \E c \in DOMAIN row : NormCell(row[c]) = name

RECURSIVE FindHeaderFrom(_, _, _, _)
FindHeaderFrom(sheet, name, limit, i) ==
    IF i >= limit THEN -1
    ELSE IF RowHasName(sheet[i + 1], name) THEN i
    ELSE FindHeaderFrom(sheet, name, limit, i + 1)

\* ScanLimit without the maxRows cap: the whole sheet is scanned
ScanLimit_WholeSheet(sheet, maxRows) == Len(sheet)

\* the bound of the scan of findHeaderRow
ScanLimit(sheet, maxRows) == Min(maxRows, Len(sheet))

\* findHeaderRow(sheet, headerName): a row index counted from 0, or -1
findHeaderRow(sheet, headerName) ==
    FindHeaderFrom(sheet, Trim(ToLowerCase(headerName)), ScanLimit(sheet, MaxRows), 0)

\* normalizeHeader(header)
normalizeHeader(header) == [i \in DOMAIN header |-> Str(NormCell(header[i]))]

RECURSIVE OrderIdFrom(_, _, _)
OrderIdFrom(sheet, limit, i) ==
    IF i >= limit THEN Null
    ELSE IF (IF Falsy(Cell(sheet[i + 1], 0)) THEN <<>> ELSE Trim(ToStr(Cell(sheet[i + 1], 0))))
            = <<"O", "r", "d", "e", "r", " ", "I", "D", ":">>
         THEN Cell(sheet[i + 1], 2)
         ELSE OrderIdFrom(sheet, limit, i + 1)

\* getOrderId(sheet)
getOrderId(sheet) == OrderIdFrom(sheet, Min(MaxRows, Len(sheet)), 0)

\* /^Unnamed/.test(col)
StartsWithUnnamed(col) ==
    LET s == ToStr(col)
    IN  Len(s) >= 7 /\ SubSeq(s, 1, 7) = <<"U", "n", "n", "a", "m", "e", "d">>

\* the indexes (from 0) of i .. n-1 that are in the set kept, in increasing order
RECURSIVE IndexesWhere(_, _, _)
IndexesWhere(kept, n, i) ==
    IF i >= n THEN <<>>
    ELSE (IF i \in kept THEN <<i>> ELSE <<>>) \o IndexesWhere(kept, n, i + 1)

\* ValidHeaderCell without the /^Unnamed/ test
ValidHeaderCell_NamedOnly(col) == ~Falsy(col)

\* the column test of the first pass of cleanSheet
ValidHeaderCell(col) == ~Falsy(col) /\ ~StartsWithUnnamed(col)

\* the cell test of the second pass of cleanSheet
NonEmptyCell(v) == v # Undef /\ v # Null /\ v # Str(<<>>)

\* cleanSheet(sheet, headerRow): <<finalHeader, finalNormHeader>> \o finalData
cleanSheet(sheet, headerRow) ==
    LET header == sheet[headerRow + 1]
        normHeader == normalizeHeader(header)
        data == SubSeq(sheet, headerRow + 2, Len(sheet))
        validIndexes ==
            IndexesWhere({idx \in 0 .. Len(header) - 1 : ValidHeaderCell(Cell(header, idx))},
                         Len(header), 0)
        cleanHeader == [k \in DOMAIN validIndexes |-> Str(ToStr(Cell(header, validIndexes[k])))]
        cleanNormHeader == [k \in DOMAIN validIndexes |-> Cell(normHeader, validIndexes[k])]
        cleanData == [r \in DOMAIN data |->
                        [k \in DOMAIN validIndexes |-> Cell(data[r], validIndexes[k])]]
        nonEmptyCols ==
            IndexesWhere({idx \in 0 .. Len(cleanNormHeader) - 1 :
                            \E r \in DOMAIN cleanData : NonEmptyCell(Cell(cleanData[r], idx))},
                         Len(cleanNormHeader), 0)
        finalHeader == [k \in DOMAIN nonEmptyCols |-> Cell(cleanHeader, nonEmptyCols[k])]
        finalNormHeader == [k \in DOMAIN nonEmptyCols |-> Cell(cleanNormHeader, nonEmptyCols[k])]
        finalData == [r \in DOMAIN cleanData |->
                        [k \in DOMAIN nonEmptyCols |-> Cell(cleanData[r], nonEmptyCols[k])]]
    IN  <<finalHeader, finalNormHeader>> \o finalData

---------------------------------------------------------------------------
(* The parts of the state a specification leaves alone *)

FnIdle == pc = "idle" /\ arg = <<>> /\ res = <<>>

MergeIdle ==
    /\ files = <<>> /\ nread = 0 /\ sheets = <<>> /\ mergedList = <<>>
    /\ combinedHeader = Null /\ allRows = <<>>

PageIdle ==
    /\ loaded = FALSE /\ selectedFiles = 0 /\ buttonDisabled = TRUE
    /\ mergeBtnDisabled = FALSE /\ masterBtnDisabled = FALSE
    /\ mergeSpinner = FALSE /\ masterSpinner = FALSE
    /\ status = "" /\ mergeRuns = 0 /\ masterRuns = 0

\* all sequences over S of length 0 .. n
SeqsUpTo(S, n) == UNION {[1 .. k -> S] : k \in 0 .. n}

---------------------------------------------------------------------------
(* formatUPC applied to bounded inputs *)

MaxUpcLen == 3

UpcChars == {"0", "5", "9", "a", " "}

\* a short input, or one long enough for slice(-11) to cut it
UpcPrefixes ==
    { <<>>,
      <<"0", "3", "6", "0", "0", "0", "2", "9", "1", "4">>,
      <<"7", "0", "3", "6", "0", "0", "0", "2", "9", "1", "4">> }

UpcInputs ==
    {Undef, Null, Num(0), Num(123), Num(905)}
        \cup {Str(p \o s) : p \in UpcPrefixes, s \in SeqsUpTo(UpcChars, MaxUpcLen)}

InitUPC ==
    /\ pc = "input" /\ arg \in UpcInputs /\ res = <<>>
    /\ MergeIdle /\ PageIdle

CallFormatUPC ==
    /\ pc = "input"
    /\ res' = formatUPC(arg)
    /\ pc' = "done"
    /\ UNCHANGED <<arg, mergeVars, pageVars>>

NextUPC == CallFormatUPC

SpecUPC == InitUPC /\ [][NextUPC]_vars

\* the 11-character base: v stringified, trimmed, its last 11 characters, left-padded
UpcBase(v) ==
    LET s == Trim(ToStr(v))
        cut == IF Len(s) > 11 THEN [i \in 1 .. 11 |-> s[Len(s) - 11 + i]] ELSE s
    IN  [i \in 1 .. 11 |-> IF i <= 11 - Len(cut) THEN "0" ELSE cut[i - (11 - Len(cut))]]

\* the weighted sum over a base, a character that is no digit counting as 0
RECURSIVE WeightedSum(_, _)
WeightedSum(base, i) ==
    IF i > 11 THEN 0
    ELSE (IF (i - 1) % 2 = 0 THEN 3 ELSE 1) * (IF IsDigit(base[i]) THEN DigitVal(base[i]) ELSE 0)
         + WeightedSum(base, i + 1)

UpcCheckDigit(base) == (10 - (WeightedSum(base, 1) % 10)) % 10

\* C5: for every non-empty input formatUPC returns the 11-character base followed by
\* exactly one check digit, (10 - (sum mod 10)) mod 10, where a character of the base
\* that is no digit counts as 0 in the sum; an empty or absent input gives "".
C5_FormatUPCAppendsCheckDigit ==
    pc = "done" =>
        IF IsNullish(arg) \/ arg = Str(<<>>)
        THEN res = Str(<<>>)
        ELSE res = Str(UpcBase(arg) \o <<Digits[UpcCheckDigit(UpcBase(arg)) + 1]>>)

\* C5 on the inputs whose base is all digits, where the code agrees with it: the
\* base "03600029145" gives "036000291452"
C5_KnownBase ==
    pc = "done" /\ arg = Str(<<"0", "3", "6", "0", "0", "0", "2", "9", "1", "4", "5">>)
        => res = Str(<<"0", "3", "6", "0", "0", "0", "2", "9", "1", "4", "5", "2">>)

---------------------------------------------------------------------------
(* findHeaderRow applied to bounded grids *)

MaxGridLen == 22

S_Item == <<"I", "t", "e", "m">>
S_AltUniversalId ==
    <<"A", "l", "t", " ", "U", "n", "i", "v", "e", "r", "s", "a", "l", " ", "I", "d">>

\* a leading row that is no header
NoiseRow == <<Str(<<"x">>), Num(0)>>

\* the rows placed among the noise rows
FindRowKinds ==
    { <<Str(S_Item)>>,
      <<Undef, Num(0), Str(<<" ", "i", "T", "E", "M", " ">>)>>,
      <<Str(<<"I", "t", "e", "m", "s">>)>>,
      <<>>,
      <<Num(7), Str(<<"a", "l", "t", " ", "u", "n", "i", "v", "e", "r", "s", "a", "l", " ", "i", "d", " ">>)>> }

\* the names findHeaderRow is called with, and a variant in another case
FindNames == {S_Item, S_AltUniversalId, <<" ", "I", "T", "E", "M">>}

\* noise rows, one row of any kind at any place, and possibly an Item header at
\* row index 19 or 20 (the 20th and the 21st row)
FindGrid(len, p1, k1, p2) ==
    [i \in 1 .. len |-> IF i = p1 THEN k1 ELSE IF i = p2 THEN <<Str(S_Item)>> ELSE NoiseRow]

InitFind ==
    /\ pc = "input"
    /\ \E len \in 0 .. MaxGridLen, p1 \in 1 .. MaxGridLen, p2 \in {0, MaxRows, MaxRows + 1},
          k1 \in FindRowKinds, name \in FindNames :
        arg = [sheet |-> FindGrid(len, p1, k1, p2), headerName |-> name]
    /\ res = <<>>
    /\ MergeIdle /\ PageIdle

CallFindHeaderRow ==
    /\ pc = "input"
    /\ res' = findHeaderRow(arg.sheet, arg.headerName)
    /\ pc' = "done"
    /\ UNCHANGED <<arg, mergeVars, pageVars>>

NextFind == CallFindHeaderRow

SpecFind == InitFind /\ [][NextFind]_vars

\* a cell stringified, lowercased and trimmed (an absent cell is the empty string)
StringifiedCell(cell) == IF IsNullish(cell) THEN <<>> ELSE Trim(ToLowerCase(ToStr(cell)))

\* the rows of the sheet, by index from 0, that hold the name in some cell
RowsHolding(sheet, name) ==
    { i \in 0 .. Len(sheet) - 1 :
        \E c \in DOMAIN sheet[i + 1] :
            StringifiedCell(sheet[i + 1][c]) = Trim(ToLowerCase(name)) }

\* C8: findHeaderRow returns the lowest row index i <= 19, i < len(grid), whose row
\* holds the marker in some cell (case and white space ignored), and -1 when there
\* is no such row, in particular when the marker only appears at index 20 or later.
C8_FindHeaderRowLowestIndex ==
    pc = "done" =>
        LET hits == {i \in RowsHolding(arg.sheet, arg.headerName) : i <= 19}
        IN  IF hits = {} THEN res = -1
            ELSE res \in hits /\ \A j \in hits : res <= j

\* C8's case: the marker is in the grid, but only at row index 20 or later
C8_Witness ==
    /\ pc = "done" /\ res = -1
    /\ RowsHolding(arg.sheet, arg.headerName) # {}
    /\ \A i \in RowsHolding(arg.sheet, arg.headerName) : i >= 20

\* C8's other case: two rows hold the marker and the lower one is returned
C8_WitnessLowest ==
    /\ pc = "done" /\ res > 0
    /\ Cardinality(RowsHolding(arg.sheet, arg.headerName)) = 2

---------------------------------------------------------------------------
(* cleanSheet applied to bounded grids *)

MaxDataRows == 2

S_Unnamed0 == <<"U", "n", "n", "a", "m", "e", "d", ":", " ", "0">>
S_Qty == <<" ", "Q", "t", "y">>

CleanHeaderCells == {Undef, Str(<<>>), Str(S_Unnamed0), Str(S_Qty), Num(7)}

\* header rows of three cells, and one of two cells (the data rows may be longer)
CleanHeaders == [1 .. 3 -> CleanHeaderCells] \cup {<<Str(S_Qty), Str(S_Unnamed0)>>}

\* data rows: empty, short, all cells empty, a 0 and an empty string, long
CleanDataRows ==
    { <<>>,
      <<Str(<<"x">>)>>,
      <<Undef, Null, Str(<<>>)>>,
      <<Str(<<>>), Num(0), Undef>>,
      <<Undef, Undef, Str(<<"y">>)>>,
      <<Null, Str(<<"q">>)>>,
      <<Str(<<"a">>), Str(<<"b">>), Str(<<"c">>), Str(<<"d">>)>> }

InitClean ==
    /\ pc = "input"
    /\ \E header \in CleanHeaders, data \in SeqsUpTo(CleanDataRows, MaxDataRows),
          headerRow \in {0, 1} :
        arg = [sheet |-> (IF headerRow = 1 THEN <<NoiseRow>> ELSE <<>>) \o <<header>> \o data,
               headerRow |-> headerRow]
    /\ res = <<>>
    /\ MergeIdle /\ PageIdle

CallCleanSheet ==
    /\ pc = "input"
    /\ res' = cleanSheet(arg.sheet, arg.headerRow)
    /\ pc' = "done"
    /\ UNCHANGED <<arg, mergeVars, pageVars>>

NextClean == CallCleanSheet

SpecClean == InitClean /\ [][NextClean]_vars

\* the elements of row at the places of S, in increasing order of place
RECURSIVE Project(_, _)
Project(row, S) ==
    IF S = {} THEN <<>>
    ELSE LET i == CHOOSE x \in S : \A y \in S : x <= y
         IN  <<IF i \in DOMAIN row THEN row[i] ELSE Undef>> \o Project(row, S \ {i})

InHeader == arg.sheet[arg.headerRow + 1]
InData == SubSeq(arg.sheet, arg.headerRow + 2, Len(arg.sheet))
OutHeader == res[1]
OutData == SubSeq(res, 3, Len(res))

\* C9: the output of cleanSheet holds no column whose header cell is empty or absent
\* or begins with "Unnamed", and no column whose cells are empty (absent, null or
\* the empty string) in every data row; the surviving columns keep their order in the
\* header and in every data row.
C9_CleanSheetColumns ==
    pc = "done" =>
        /\ \A c \in DOMAIN OutHeader :
            /\ OutHeader[c] \notin {Undef, Null, Str(<<>>)}
            /\ ~(Len(ToStr(OutHeader[c])) >= 7
                    /\ SubSeq(ToStr(OutHeader[c]), 1, 7) = <<"U", "n", "n", "a", "m", "e", "d">>)
            /\ \E r \in DOMAIN OutData : OutData[r][c] \notin {Undef, Null, Str(<<>>)}
        /\ Len(OutData) = Len(InData)
        /\ \E S \in SUBSET DOMAIN InHeader :
            /\ OutHeader = Project([i \in DOMAIN InHeader |-> Str(ToStr(InHeader[i]))], S)
            /\ \A r \in DOMAIN InData : OutData[r] = Project(InData[r], S)

\* C9's case: a named column with data survives between dropped columns: an Unnamed
\* column that has data and a column whose cells are all empty are both removed
C9_Witness ==
    /\ pc = "done"
    /\ InHeader = <<Str(S_Unnamed0), Str(S_Qty), Num(7)>>
    /\ InData = <<<<Str(<<"a">>), Str(<<"b">>), Str(<<"c">>), Str(<<"d">>)>>, <<Str(<<>>), Num(0), Undef>>>>
    /\ res = <<<<Str(S_Qty), Str(<<"7">>)>>, <<Str(<<"q", "t", "y">>), Str(<<"7">>)>>,
               <<Str(<<"b">>), Str(<<"c">>)>>, <<Num(0), Undef>>>>

---------------------------------------------------------------------------
(* groupBy *)

K_quantity == <<"q", "u", "a", "n", "t", "i", "t", "y">>

\* obj[name]: undefined when the object has no such property
Field(obj, name) == IF name \in DOMAIN obj THEN obj[name] ELSE Undef

\* the property key a value becomes in groups[k]
PropKey(v) == ToStr(v)

\* a before b, for two strings of digits of the same length
RECURSIVE DigitsLexLess(_, _)
DigitsLexLess(a, b) ==
    IF a = <<>> THEN FALSE
    ELSE IF Head(a) # Head(b) THEN DigitVal(Head(a)) < DigitVal(Head(b))
    ELSE DigitsLexLess(Tail(a), Tail(b))

\* a < b, for two canonical numeric strings
IndexLess(a, b) == Len(a) < Len(b) \/ (Len(a) = Len(b) /\ DigitsLexLess(a, b))

\* s is an array index: the canonical string of an integer in 0 .. 2^32 - 2
IsArrayIndex(s) ==
    /\ s # <<>>
    /\ DigitPrefix(s) = s
    /\ Len(s) = 1 \/ Head(s) # "0"
    /\ ~IndexLess(<<"4", "2", "9", "4", "9", "6", "7", "2", "9", "4">>, s)

\* seq without the later occurrences of its elements
RECURSIVE FirstOccurrences(_)
FirstOccurrences(seq) ==
    IF seq = <<>> THEN <<>>
    ELSE LET init == FirstOccurrences(SubSeq(seq, 1, Len(seq) - 1))
             last == seq[Len(seq)]
         IN  IF \E i \in DOMAIN init : init[i] = last THEN init ELSE Append(init, last)

\* the array indexes of S in ascending numeric order
RECURSIVE AscendingIndexes(_)
AscendingIndexes(S) ==
    IF S = {} THEN <<>>
    ELSE LET m == CHOOSE x \in S : \A y \in S : y = x \/ IndexLess(x, y)
         IN  <<m>> \o AscendingIndexes(S \ {m})

\* the order in which (for k in groups) visits the keys created in the order given:
\* the array indexes in ascending numeric order, then the other keys as created
ForInOrder(created) ==
    AscendingIndexes({created[i] : i \in {j \in DOMAIN created : IsArrayIndex(created[j])}})
        \o SelectSeq(created, LAMBDA k : ~IsArrayIndex(k))

RECURSIVE SumQuantity(_)
SumQuantity(rows) ==
    IF rows = <<>> THEN 0
    ELSE SumQuantity(SubSeq(rows, 1, Len(rows) - 1))
            + ParseFloatOr0(Field(rows[Len(rows)], K_quantity))

\* GroupBase taking the last row of the group instead of the first
GroupBase_LastRow(rows) ==
    LET base == rows[Len(rows)]
    IN  IF K_quantity \in DOMAIN base
        THEN [base EXCEPT ![K_quantity] = Num(SumQuantity(rows))]
        ELSE base

\* the record pushed for one group: rows[0] copied, its quantity summed over the group
GroupBase(rows) ==
    LET base == rows[1]
    IN  IF K_quantity \in DOMAIN base
        THEN [base EXCEPT ![K_quantity] = Num(SumQuantity(rows))]
        ELSE base

\* groupBy(data, key)
groupBy(data, key) ==
    LET k == Trim(ToLowerCase(key))
        KeyOf(row) == PropKey(Field(row, k))
        created == FirstOccurrences([i \in DOMAIN data |-> KeyOf(data[i])])
        order == ForInOrder(created)
    IN  [i \in DOMAIN order |-> GroupBase(SelectSeq(data, LAMBDA r : KeyOf(r) = order[i]))]

---------------------------------------------------------------------------
(* groupBy applied to bounded record sequences *)

MaxRecs == 3

K_k == <<"k">>
K_d == <<"d">>

GroupKeyVals == {Str(<<"A">>), Str(<<"B">>), Str(<<"1", "0">>), Num(2), Str(<<"2">>)}
GroupQtyVals == {Str(<<"2">>), Str(<<"3">>), Str(<<"x">>), Num(1)}

\* the record at position i of the input: the fields k, quantity and d, or k and d
\* alone; d is the position of the record in the input
GroupRecord(kv, qv, i, withQuantity) ==
    IF withQuantity
    THEN (K_k :> kv) @@ (K_quantity :> qv) @@ (K_d :> Num(i))
    ELSE (K_k :> kv) @@ (K_d :> Num(i))

InitGroupBy ==
    /\ pc = "input"
    /\ \E len \in 0 .. MaxRecs, withQuantity \in BOOLEAN :
        \E ks \in [1 .. len -> GroupKeyVals],
           qs \in [1 .. len -> IF withQuantity THEN GroupQtyVals ELSE {Undef}] :
            arg = [data |-> [i \in 1 .. len |-> GroupRecord(ks[i], qs[i], i, withQuantity)],
                   key |-> <<"K", " ">>]
    /\ res = <<>>
    /\ MergeIdle /\ PageIdle

CallGroupBy ==
    /\ pc = "input"
    /\ res' = groupBy(arg.data, arg.key)
    /\ pc' = "done"
    /\ UNCHANGED <<arg, mergeVars, pageVars>>

NextGroupBy == CallGroupBy

SpecGroupBy == InitGroupBy /\ [][NextGroupBy]_vars

\* the key values of the input records, as groupBy tells them apart
InKeys == [i \in DOMAIN arg.data |-> PropKey(arg.data[i][K_k])]

\* C3: groupBy returns the groups in the order in which each distinct key value first
\* occurs in the input, also for key values that are numbers or numeric strings.
C3_GroupsInFirstOccurrenceOrder ==
    pc = "done" =>
        [i \in DOMAIN res |-> PropKey(res[i][K_k])] = FirstOccurrences(InKeys)

\* the input records of the group of key value g, in input order
GroupOf(g) == SelectSeq(arg.data, LAMBDA r : PropKey(r[K_k]) = g)

\* the numeric value of a quantity, an unparsable one counting as 0
RECURSIVE QuantityTotal(_)
QuantityTotal(rows) ==
    IF rows = <<>> THEN 0
    ELSE ParseFloatOr0(Head(rows)[K_quantity]) + QuantityTotal(Tail(rows))

\* C4: groupBy returns one record per distinct key value, a copy of the first record
\* of its group, except that a quantity field is replaced by the sum of the numeric
\* quantities of the group (an unparsable one counts as 0).
C4_GroupByFirstRecordAndSum ==
    pc = "done" =>
        /\ Len(res) = Cardinality({InKeys[i] : i \in DOMAIN InKeys})
        /\ \A i \in DOMAIN InKeys : \E j \in DOMAIN res : PropKey(res[j][K_k]) = InKeys[i]
        /\ \A j \in DOMAIN res :
            LET group == GroupOf(PropKey(res[j][K_k]))
            IN  /\ group # <<>>
                /\ DOMAIN res[j] = DOMAIN group[1]
                /\ \A f \in DOMAIN res[j] \ {K_quantity} : res[j][f] = group[1][f]
                /\ K_quantity \in DOMAIN res[j] =>
                        res[j][K_quantity] = Num(QuantityTotal(group))

\* C4's case: [{k:A,quantity:"2"},{k:A,quantity:"3"},{k:B,quantity:"x"}] gives
\* {k:A,quantity:5} and {k:B,quantity:0}
C4_Witness ==
    /\ pc = "done"
    /\ arg.data =
        << (K_k :> Str(<<"A">>)) @@ (K_quantity :> Str(<<"2">>)) @@ (K_d :> Num(1)),
           (K_k :> Str(<<"A">>)) @@ (K_quantity :> Str(<<"3">>)) @@ (K_d :> Num(2)),
           (K_k :> Str(<<"B">>)) @@ (K_quantity :> Str(<<"x">>)) @@ (K_d :> Num(3)) >>
    /\ res =
        << (K_k :> Str(<<"A">>)) @@ (K_quantity :> Num(5)) @@ (K_d :> Num(1)),
           (K_k :> Str(<<"B">>)) @@ (K_quantity :> Num(0)) @@ (K_d :> Num(3)) >>

---------------------------------------------------------------------------
(* Records and the output grid *)

K_item == <<"i", "t", "e", "m">>
K_altUniversalId == <<"a", "l", "t", " ", "u", "n", "i", "v", "e", "r", "s", "a", "l", " ", "i", "d">>
K_inmarOrder == <<"i", "n", "m", "a", "r", " ", "o", "r", "d", "e", "r", " ", "#">>
K_lastKnownPrice == <<"l", "a", "s", "t", " ", "k", "n", "o", "w", "n", " ", "p", "r", "i", "c", "e">>
K_extendedPrice == <<"e", "x", "t", "e", "n", "d", "e", "d", " ", "p", "r", "i", "c", "e">>
K_liquidationPct == <<"l", "i", "q", "u", "i", "d", "a", "t", "i", "o", "n", " ", "%">>
K_extLiquidationPrc == <<"e", "x", "t", " ", "l", "i", "q", "u", "i", "d", "a", "t", "i", "o", "n", " ", "p", "r", "c">>
K_universalId == <<"u", "n", "i", "v", "e", "r", "s", "a", "l", " ", "i", "d">>
K_actualUpc == <<"a", "c", "t", "u", "a", "l", " ", "u", "p", "c">>
S_InmarOrder == <<"I", "n", "m", "a", "r", " ", "O", "r", "d", "e", "r", " ", "#">>
S_Quantity == <<"Q", "u", "a", "n", "t", "i", "t", "y">>
S_LastKnownPrice == <<"L", "a", "s", "t", " ", "K", "n", "o", "w", "n", " ", "P", "r", "i", "c", "e">>
S_UniversalId == <<"U", "n", "i", "v", "e", "r", "s", "a", "l", " ", "I", "d">>
S_LiquidationPct == <<"L", "i", "q", "u", "i", "d", "a", "t", "i", "o", "n", " ", "%">>
S_OrderIdLabel == <<"O", "r", "d", "e", "r", " ", "I", "D", ":">>

EXPECTED_HEADER ==
    << Str(<<"L", "o", "c", "a", "t", "i", "o", "n">>),
       Str(<<"R", "e", "c", "e", "i", "p", "t", " ", "#">>),
       Str(<<"I", "n", "m", "a", "r", " ", "O", "r", "d", "e", "r", " ", "#">>),
       Str(<<"I", "t", "e", "m">>),
       Str(<<"U", "P", "C">>),
       Str(<<"D", "e", "p", "a", "r", "t", "m", "e", "n", "t">>),
       Str(<<"D", "e", "p", "a", "r", "t", "m", "e", "n", "t", " ", "N", "a", "m", "e">>),
       Str(<<"I", "t", "e", "m", " ", "d", "e", "s", "c", "r", "i", "p", "t", "i", "o", "n">>),
       Str(<<"Q", "u", "a", "n", "t", "i", "t", "y">>),
       Str(<<"L", "a", "s", "t", " ", "K", "n", "o", "w", "n", " ", "P", "r", "i", "c", "e">>),
       Str(<<"E", "x", "t", "e", "n", "d", "e", "d", " ", "P", "r", "i", "c", "e">>),
       Str(<<"L", "i", "q", "u", "i", "d", "a", "t", "i", "o", "n", " ", "%">>),
       Str(<<"E", "x", "t", " ", "L", "i", "q", "u", "i", "d", "a", "t", "i", "o", "n", " ", "P", "r", "c">>),
       Str(<<"C", "a", "t", "e", "g", "o", "r", "y", " ", "C", "o", "d", "e">>),
       Str(<<"C", "a", "t", "e", "g", "o", "r", "y", " ", "C", "o", "d", "e", " ", "D", "e", "s", "c", "r", "i", "p", "t", "i", "o", "n">>),
       Str(<<"V", "e", "n", "d", "o", "r", " ", "N", "a", "m", "e">>),
       Str(<<"C", "o", "n", "t", "a", "i", "n", "e", "r", " ", "I", "D">>),
       Str(<<"C", "o", "n", "t", "a", "i", "n", "e", "r">>),
       Str(<<"P", "a", "r", "e", "n", "t", " ", "C", "o", "n", "t", "a", "i", "n", "e", "r">>),
       Str(<<"U", "n", "i", "v", "e", "r", "s", "a", "l", " ", "I", "d">>),
       Str(<<"D", "e", "s", "c", "r", "i", "p", "t", "i", "o", "n">>),
       Str(<<"R", "e", "t", "a", "i", "l", " ", "C", "o", "s", "t">>),
       Str(<<"S", "t", "o", "r", "e", " ", "C", "o", "s", "t">>),
       Str(<<"I", "n", "v", "o", "i", "c", "e", " ", "C", "o", "s", "t">>),
       Str(<<"A", "c", "t", "u", "a", "l", " ", "U", "P", "C">>) >>

\* the last index (from 0) at which normHeader holds the name h
LastIndexOf(normHeader, h) ==
    (CHOOSE i \in DOMAIN normHeader :
        /\ normHeader[i].s = h
        /\ \A j \in DOMAIN normHeader : normHeader[j].s = h => j <= i) - 1

\* arrayToObjects(sheet): one object per data row, keyed by the normalized header
\* (the attached __originalHeader reference is never read and is left out)
arrayToObjects(sheet) ==
    LET normHeader == sheet[2]
        rows == SubSeq(sheet, 3, Len(sheet))
    IN  [r \in DOMAIN rows |->
            [h \in {normHeader[i].s : i \in DOMAIN normHeader} |->
                Cell(rows[r], LastIndexOf(normHeader, h))]]

\* one cell of objectsToArray: the value under the key that matches the header name
ExpectedCell(obj, h) ==
    LET norm == Trim(ToLowerCase(h.s))
    IN  IF \E k \in DOMAIN obj : Trim(ToLowerCase(k)) = norm
        THEN obj[CHOOSE k \in DOMAIN obj : Trim(ToLowerCase(k)) = norm]
        ELSE Str(<<>>)

\* objectsToArray(objs)
objectsToArray(objs) ==
    IF objs = <<>> THEN <<EXPECTED_HEADER>>
    ELSE <<EXPECTED_HEADER>>
            \o [r \in DOMAIN objs |->
                    [c \in DOMAIN EXPECTED_HEADER |-> ExpectedCell(objs[r], EXPECTED_HEADER[c])]]

---------------------------------------------------------------------------
(* merge *)

\* obj[name] = v
SetField(obj, name, v) ==
    [k \in DOMAIN obj \cup {name} |-> IF k = name THEN v ELSE obj[k]]

\* a value times 0.01 (the product is kept in hundredths)
Hundredths(k) == [t |-> "num/100", s |-> <<>>, n |-> k]

\* { ...itemRow, ...match } with the operands exchanged: the item record wins
Spread_ItemWins(itemRow, match) ==
    [k \in DOMAIN itemRow \cup DOMAIN match |->
        IF k \in DOMAIN itemRow THEN itemRow[k] ELSE match[k]]

\* { ...itemRow, ...match }
Spread(itemRow, match) ==
    [k \in DOMAIN itemRow \cup DOMAIN match |->
        IF k \in DOMAIN match THEN match[k] ELSE itemRow[k]]

\* the merged row of an item record and its matching alt-id record
MergeRow(itemRow, match) ==
    LET m0 == Spread(itemRow, match)
        m1 == IF K_altUniversalId \in DOMAIN m0
              THEN SetField(m0, K_altUniversalId, Field(m0, K_item)) ELSE m0
        m2 == IF K_quantity \in DOMAIN m1 /\ K_lastKnownPrice \in DOMAIN m1
              THEN SetField(m1, K_extendedPrice,
                        Num(ParseFloatOr0(m1[K_quantity]) * ParseFloatOr0(m1[K_lastKnownPrice])))
              ELSE m1
        m3 == IF K_extendedPrice \in DOMAIN m2 /\ K_liquidationPct \in DOMAIN m2
              THEN SetField(m2, K_extLiquidationPrc,
                        Hundredths(ParseFloatOr0(m2[K_extendedPrice])
                                    * ParseFloatOr0(m2[K_liquidationPct])))
              ELSE m2
    IN  IF K_universalId \in DOMAIN m3
        THEN SetField(m3, K_actualUpc, formatUPC(m3[K_universalId]))
        ELSE m3

\* the indexes of the alt-id records that match the item record
MatchIndexes(altidArr, itemRow) ==
    {a \in DOMAIN altidArr :
        LooseEq(Field(altidArr[a], K_altUniversalId), Field(itemRow, K_item))}

\* altidArr.find(...) taking the last match instead of the first
FindMatch_Last(altidArr, itemRow) ==
    IF MatchIndexes(altidArr, itemRow) = {} THEN 0
    ELSE CHOOSE a \in MatchIndexes(altidArr, itemRow) :
            \A b \in MatchIndexes(altidArr, itemRow) : b <= a

\* altidArr.find(a => a['alt universal id'] == itemRow['item']): the index (from 1)
\* of the first match, 0 when there is none
FindMatch(altidArr, itemRow) ==
    IF MatchIndexes(altidArr, itemRow) = {} THEN 0
    ELSE CHOOSE a \in MatchIndexes(altidArr, itemRow) :
            \A b \in MatchIndexes(altidArr, itemRow) : a <= b

\* the forEach over the item records: the merged rows pushed
RECURSIVE JoinRows(_, _)
JoinRows(itemArr, altidArr) ==
    IF itemArr = <<>> THEN <<>>
    ELSE LET a == FindMatch(altidArr, Head(itemArr))
         IN  (IF a # 0 THEN <<MergeRow(Head(itemArr), altidArr[a])>> ELSE <<>>)
                \o JoinRows(Tail(itemArr), altidArr)

\* the alt-id table as the join reads it: grouped when it has the column
GroupedAltid(altidData) ==
    IF altidData # <<>> /\ K_altUniversalId \in DOMAIN altidData[1]
    THEN groupBy(altidData, K_altUniversalId) ELSE altidData

\* the item table as the join reads it: grouped when it has the column
GroupedItem(itemData) ==
    IF itemData # <<>> /\ K_item \in DOMAIN itemData[1]
    THEN groupBy(itemData, K_item) ELSE itemData

\* what merge keeps of one sheet before the matching: altidInfo[i] (row, orderId),
\* itemInfo[i], altidData[i] and itemData[i]; a row of -1 is an absent entry
SheetTables(sheet) ==
    LET altidRow == findHeaderRow(sheet, S_AltUniversalId)
        itemRow == findHeaderRow(sheet, S_Item)
    IN  [altidRow |-> altidRow,
         orderId |-> IF altidRow # -1 THEN getOrderId(sheet) ELSE Undef,
         itemRow |-> itemRow,
         altidData |-> IF altidRow # -1 THEN arrayToObjects(cleanSheet(sheet, altidRow)) ELSE <<>>,
         itemData |-> IF itemRow # -1 THEN arrayToObjects(cleanSheet(sheet, itemRow)) ELSE <<>>]

RECURSIVE AllTables(_)
AllTables(allSheets) ==
    IF allSheets = <<>> THEN <<>>
    ELSE <<SheetTables(Head(allSheets))>> \o AllTables(Tail(allSheets))

\* itemArr.length && (itemArr[0]['inmar order #'] || itemArr[0]['Inmar Order #'])
OrderVal(itemArr) ==
    IF itemArr = <<>> THEN Num(0)
    ELSE IF ~Falsy(Field(itemArr[1], K_inmarOrder)) THEN itemArr[1][K_inmarOrder]
    ELSE Field(itemArr[1], S_InmarOrder)

\* orderVal == orderId compared without conversion (===)
OrderMatches_Strict(orderVal, orderId) == orderVal = orderId

\* orderVal == altidInfo[altidIdx].orderId
OrderMatches(orderVal, orderId) == LooseEq(orderVal, orderId)

\* the sheets.length < 2 test
TooFewSheets(allSheets) == Len(allSheets) < 2

\* the entry pushed for one matching pair, if its join is not empty; csv is the grid
\* handed to the csv encoder; merged, itemIdx and altidIdx record the merged rows and
\* the pair of sheets the entry was built from
PairEntry(item, altid, orderVal, itemIdx, altidIdx) ==
    LET merged == JoinRows(GroupedItem(item.itemData), GroupedAltid(altid.altidData))
    IN  IF merged # <<>>
        THEN <<[csv |-> objectsToArray(merged), label |-> orderVal,
                merged |-> merged, itemIdx |-> itemIdx, altidIdx |-> altidIdx]>>
        ELSE <<>>

\* the inner loop over altidInfo, from altidIdx on
RECURSIVE AltidLoop(_, _, _, _)
AltidLoop(tables, itemIdx, orderVal, altidIdx) ==
    IF altidIdx >= Len(tables) THEN <<>>
    ELSE (IF tables[altidIdx + 1].altidRow # -1
             /\ OrderMatches(orderVal, tables[altidIdx + 1].orderId)
          THEN PairEntry(tables[itemIdx + 1], tables[altidIdx + 1], orderVal, itemIdx, altidIdx)
          ELSE <<>>)
            \o AltidLoop(tables, itemIdx, orderVal, altidIdx + 1)

\* the outer loop over itemData, from itemIdx on
RECURSIVE ItemLoop(_, _)
ItemLoop(tables, itemIdx) ==
    IF itemIdx >= Len(tables) THEN <<>>
    ELSE (IF tables[itemIdx + 1].itemRow # -1
             /\ ~Falsy(OrderVal(tables[itemIdx + 1].itemData))
          THEN AltidLoop(tables, itemIdx, OrderVal(tables[itemIdx + 1].itemData), 0)
          ELSE <<>>)
            \o ItemLoop(tables, itemIdx + 1)

\* merge, after the files are read: the entries [csv, orderVal] returned
MergedEntries(allSheets) ==
    IF TooFewSheets(allSheets) THEN <<>> ELSE ItemLoop(AllTables(allSheets), 0)

---------------------------------------------------------------------------
(* merge applied to bounded file lists *)

MaxFiles == 3

T(chars) == Str(chars)

OrderIdRow(orderId) == <<Str(S_OrderIdLabel), Undef, orderId>>

\* an item sheet of order "55": the item X1 twice, the numeric items 5 and 20, and an
\* item ZZ that no alt-id sheet lists
ItemSheet55 ==
    << NoiseRow,
       <<Str(S_InmarOrder), Str(S_Item), Str(S_Quantity), Str(S_LastKnownPrice)>>,
       <<T(<<"5", "5">>), T(<<"X", "1">>), T(<<"2">>), T(<<"1", "0">>)>>,
       <<T(<<"5", "5">>), T(<<"Z", "Z">>), T(<<"1">>), T(<<"1">>)>>,
       <<T(<<"5", "5">>), Num(5), T(<<"3">>), Num(4)>>,
       <<T(<<"5", "5">>), T(<<"X", "1">>), T(<<"x">>), T(<<"1", "0">>)>>,
       <<T(<<"5", "5">>), T(<<"2", "0">>), Num(1), T(<<"7">>)>> >>

\* an item sheet of order 55 (a number) without a quantity column
ItemSheetNoQuantity ==
    << <<Str(S_Item), Str(S_InmarOrder), Str(S_LastKnownPrice), Str(S_LiquidationPct)>>,
       <<T(<<"X", "1">>), Num(55), T(<<"1", "0">>), T(<<"5", "0">>)>> >>

\* an alt-id sheet of order "55": X1 twice, and "05" and "5", which both equal the
\* item 5
AltSheet55 ==
    << OrderIdRow(T(<<"5", "5">>)),
       <<Str(S_AltUniversalId), Str(S_UniversalId)>>,
       <<T(<<"X", "1">>), T(<<"1", "2", "3">>)>>,
       <<T(<<"0", "5">>), T(<<"7", "7">>)>>,
       <<T(<<"5">>), T(<<"8", "8">>)>>,
       <<T(<<"X", "1">>), T(<<"9">>)>>,
       <<T(<<"Q">>), Num(1)>> >>

\* an alt-id sheet of order 55 (a number) with a quantity column of its own
AltSheetQuantity ==
    << <<Str(S_AltUniversalId), Str(S_UniversalId), Str(S_Quantity)>>,
       OrderIdRow(Num(55)),
       <<T(<<"X", "1">>), T(<<"3">>), T(<<"4">>)>>,
       <<T(<<"X", "1">>), T(<<"9">>), Num(1)>> >>

\* an alt-id sheet of order "55" that lists none of the items
AltSheetOther ==
    << <<Str(S_OrderIdLabel), Str(<<>>), T(<<"5", "5">>)>>,
       <<Str(S_AltUniversalId), Str(S_UniversalId)>>,
       <<T(<<"N", "O">>), T(<<"1">>)>> >>

\* one sheet that holds both tables under one header row
BothSheet ==
    << OrderIdRow(T(<<"5", "5">>)),
       <<Str(S_Item), Str(S_AltUniversalId), Str(S_InmarOrder), Str(S_UniversalId)>>,
       <<T(<<"X", "1">>), T(<<"X", "1">>), T(<<"5", "5">>), T(<<"1", "2", "3">>)>> >>

\* one sheet of order 0 that holds both tables: the order number of its first item
\* record and its Order ID are both the number 0
Order0Sheet ==
    << OrderIdRow(Num(0)),
       <<Str(S_InmarOrder), Str(S_Item), Str(S_AltUniversalId), Str(S_UniversalId)>>,
       <<Num(0), T(<<"X", "1">>), T(<<"X", "1">>), T(<<"1">>)>>,
       <<T(<<"5", "5">>), T(<<"X", "1">>), T(<<"X", "1">>), T(<<"1">>)>> >>

\* the decoded grids a file can hold; <<>> is a file with no rows
SheetMenu ==
    { <<>>, ItemSheet55, ItemSheetNoQuantity, AltSheet55, AltSheetQuantity,
      AltSheetOther, BothSheet, Order0Sheet }

Init ==
    /\ pc = "reading" /\ arg = <<>> /\ res = <<>>
    /\ \E len \in 0 .. MaxFiles : files \in [1 .. len -> SheetMenu]
    /\ nread = 0 /\ sheets = <<>> /\ mergedList = <<>>
    /\ combinedHeader = Null /\ allRows = <<>>
    /\ PageIdle

\* one turn of the reading loop: the file is decoded and pushed if it has rows
ReadFile ==
    /\ pc = "reading" /\ nread < Len(files)
    /\ nread' = nread + 1
    /\ sheets' = IF files[nread + 1] # <<>> THEN Append(sheets, files[nread + 1]) ELSE sheets
    /\ UNCHANGED <<pc, arg, res, files, mergedList, combinedHeader, allRows, pageVars>>

\* the rest of merge, which runs without a pause
MergeSheets ==
    /\ pc = "reading" /\ nread = Len(files)
    /\ mergedList' = MergedEntries(sheets)
    /\ pc' = "done"
    /\ UNCHANGED <<arg, res, files, nread, sheets, combinedHeader, allRows, pageVars>>

Next == ReadFile \/ MergeSheets

Spec == Init /\ [][Next]_vars

\* the input files that decode to at least one row, in input order
NonEmptyFiles == SelectSeq(files, LAMBDA f : f # <<>>)

\* the item table and the alt-id table of each such file, and its Order ID
FileTables == AllTables(NonEmptyFiles)

\* the value of `inmar order #` on the first record of an item table
FirstOrderNumber(itemTable) ==
    IF itemTable # <<>> THEN Field(itemTable[1], K_inmarOrder) ELSE Undef

\* the merged rows of the row-level join of the item table of one file and the
\* alt-id table of another
JoinOf(fi, fj) == JoinRows(GroupedItem(fi.itemData), GroupedAltid(fj.altidData))

\* the pair (item file i, alt-id file j), by position in the tables, gives an entry:
\* the first item record has a non-empty order number (not absent, "" or 0), the
\* Order ID of file j is non-null and loosely equal to it, the join is not empty
Qualifies(tables, i, j) ==
    /\ tables[i].itemRow # -1 /\ ~Falsy(FirstOrderNumber(tables[i].itemData))
    /\ tables[j].altidRow # -1 /\ ~IsNullish(tables[j].orderId)
    /\ LooseEq(FirstOrderNumber(tables[i].itemData), tables[j].orderId)
    /\ JoinOf(tables[i], tables[j]) # <<>>

\* one entry per qualifying pair, in order of i and then of j, labelled with the
\* order number, and no other entry
OneEntryPerPair(tables) ==
    /\ \A x \in DOMAIN mergedList :
        LET i == mergedList[x].itemIdx + 1
            j == mergedList[x].altidIdx + 1
        IN  /\ i \in DOMAIN tables /\ j \in DOMAIN tables
            /\ Qualifies(tables, i, j)
            /\ mergedList[x].label = FirstOrderNumber(tables[i].itemData)
            /\ mergedList[x].csv = objectsToArray(JoinOf(tables[i], tables[j]))
    /\ \A i, j \in DOMAIN tables :
        Qualifies(tables, i, j) =>
            \E x \in DOMAIN mergedList :
                mergedList[x].itemIdx = i - 1 /\ mergedList[x].altidIdx = j - 1
    /\ \A x, y \in DOMAIN mergedList :
        x < y =>
            \/ mergedList[x].itemIdx < mergedList[y].itemIdx
            \/ /\ mergedList[x].itemIdx = mergedList[y].itemIdx
               /\ mergedList[x].altidIdx < mergedList[y].altidIdx

\* C1 as stated: merge returns exactly one entry for every pair (item file i, alt-id
\* file j), in input order of i and then of j, whose item table has a non-empty order
\* number on its first record, whose Order ID is non-null and loosely equal to it and
\* whose join is not empty, labelled with that order number; and no other entry.
C1_Original == pc = "done" => OneEntryPerPair(FileTables)

\* C1 as amended: the same, provided at least two input files decode to a non-empty
\* sheet; with fewer, merge returns no entry at all.
C1_OneEntryPerMatchingPair ==
    pc = "done" =>
        IF Len(NonEmptyFiles) < 2 THEN mergedList = <<>> ELSE OneEntryPerPair(FileTables)

\* C1's case: two alt-id files match the same item file, whose order number 55 is a
\* number for one and a string for the other, and each pair gives an entry
C1_Witness ==
    /\ pc = "done"
    /\ \E a, b \in DOMAIN mergedList :
        /\ a < b
        /\ mergedList[a].itemIdx = mergedList[b].itemIdx
        /\ mergedList[a].altidIdx < mergedList[b].altidIdx
        /\ mergedList[a].label = Num(55)

\* the alt-id records whose `alt universal id` loosely equals the `item` of r
Matches(altids, r) ==
    {a \in DOMAIN altids : LooseEq(Field(altids[a], K_altUniversalId), Field(r, K_item))}

\* the item records that have a match, in item-table order, and the first match of one
MatchedItems(items, altids) == SelectSeq(items, LAMBDA r : Matches(altids, r) # {})
FirstMatch(altids, r) ==
    altids[CHOOSE a \in Matches(altids, r) : \A b \in Matches(altids, r) : a <= b]

\* the fields merge computes or overwrites after combining the two records
DerivedFields == {K_altUniversalId, K_extendedPrice, K_extLiquidationPrc, K_actualUpc}

\* the merged rows are built from the matched item records, in order, each with its
\* first match
BuiltFromFirstMatches(merged, items, altids) ==
    LET matched == MatchedItems(items, altids)
    IN  /\ Len(merged) = Len(matched)
        /\ \A n \in DOMAIN merged :
            LET r == matched[n]
                a == FirstMatch(altids, r)
                m == merged[n]
            IN  /\ DOMAIN a \cup DOMAIN r \subseteq DOMAIN m
                /\ DOMAIN m \subseteq DOMAIN a \cup DOMAIN r \cup DerivedFields
                /\ \A f \in DOMAIN a \ DerivedFields : m[f] = a[f]
                /\ \A f \in DOMAIN r \ (DOMAIN a \cup DerivedFields) : m[f] = r[f]

\* the tables the join of an entry read, as grouped
EntryItems(tables, e) == GroupedItem(tables[e.itemIdx + 1].itemData)
EntryAltids(tables, e) == GroupedAltid(tables[e.altidIdx + 1].altidData)

\* C2: in the join of a matched pair every (grouped) item record with some loosely
\* equal alt-id record gives exactly one merged record, built from the first such
\* alt-id record in alt-id table order; an item record without a match gives none;
\* the merged records are in item-table order and no other record appears.
C2_JoinFirstMatchInItemOrder ==
    pc = "done" =>
        LET tables == FileTables
        IN  \A x \in DOMAIN mergedList :
                BuiltFromFirstMatches(mergedList[x].merged,
                    EntryItems(tables, mergedList[x]), EntryAltids(tables, mergedList[x]))

\* an item with two loosely equal alt-id records of different universal id, and an
\* item with none
AmbiguousAndUnmatched(items, altids) ==
    /\ \E i \in DOMAIN items : Matches(altids, items[i]) = {}
    /\ \E i \in DOMAIN items :
        \E a, b \in Matches(altids, items[i]) : altids[a][K_universalId] # altids[b][K_universalId]

\* C2's case: such a join has given an entry
C2_Witness ==
    /\ pc = "done"
    /\ \E x \in DOMAIN mergedList :
        AmbiguousAndUnmatched(EntryItems(FileTables, mergedList[x]),
                              EntryAltids(FileTables, mergedList[x]))

\* the extended price of every merged row, given the records it was built from
ExtendedPricesRight(merged, items, altids) ==
    LET matched == MatchedItems(items, altids)
    IN  \A n \in DOMAIN merged :
            LET r == matched[n]
                a == FirstMatch(altids, r)
                m == merged[n]
            IN  IF K_quantity \in DOMAIN m /\ K_lastKnownPrice \in DOMAIN m
                THEN /\ m[K_quantity] =
                            IF K_quantity \in DOMAIN a THEN a[K_quantity] ELSE r[K_quantity]
                     /\ m[K_quantity].t = "num"
                     /\ m[K_extendedPrice] =
                            Num(m[K_quantity].n * ParseFloatOr0(m[K_lastKnownPrice]))
                ELSE K_extendedPrice \notin DOMAIN m

\* C6: a merged record with both a quantity and a last known price key has extended
\* price = numeric(quantity) * numeric(last known price), unparsable counting as 0,
\* the quantity being the group sum, and the alt-id record's where it has one; a
\* merged record without one of the keys gets no extended price from merge.
C6_ExtendedPrice ==
    pc = "done" =>
        LET tables == FileTables
        IN  \A x \in DOMAIN mergedList :
                ExtendedPricesRight(mergedList[x].merged,
                    EntryItems(tables, mergedList[x]), EntryAltids(tables, mergedList[x]))

\* C6's case: the quantities "2" and "x" of one item and the price "10" give 20
C6_Witness ==
    /\ pc = "done"
    /\ \E x \in DOMAIN mergedList : \E n \in DOMAIN mergedList[x].merged :
        LET m == mergedList[x].merged[n]
        IN  /\ K_extendedPrice \in DOMAIN m /\ m[K_extendedPrice] = Num(20)
            /\ m[K_quantity] = Num(2) /\ m[K_lastKnownPrice] = Str(<<"1", "0">>)

\* C6's other cases: the alt-id sheet's own quantity (4 + 1) replaces the item's
\* (2 + 0), and a merged record without a quantity key has no extended price
C6_WitnessOverwrite ==
    /\ pc = "done"
    /\ \E x \in DOMAIN mergedList : \E n \in DOMAIN mergedList[x].merged :
        /\ K_quantity \in DOMAIN EntryItems(FileTables, mergedList[x])[1]
        /\ K_quantity \in DOMAIN EntryAltids(FileTables, mergedList[x])[1]
        /\ mergedList[x].merged[n][K_extendedPrice] = Num(50)

C6_WitnessAbsent ==
    /\ pc = "done"
    /\ \E x \in DOMAIN mergedList : \E n \in DOMAIN mergedList[x].merged :
        /\ K_quantity \notin DOMAIN mergedList[x].merged[n]
        /\ K_lastKnownPrice \in DOMAIN mergedList[x].merged[n]

---------------------------------------------------------------------------
(* combineMergedFiles *)

\* a grid row held in a variable that can also be null or undefined
RowVal(cells) == [t |-> "array", cells |-> cells]

\* one cell of an entry's delimited text as XLSX.read / sheet_to_json give it back:
\* an empty field is a hole, a field of digits a number, any other field its text
CsvCell(v) ==
    IF IsNullish(v) THEN Undef
    ELSE IF v.t \in {"num", "num/100"} THEN v
    ELSE IF ToStr(v) = <<>> THEN Undef
    ELSE IF \A i \in DOMAIN ToStr(v) : IsDigit(ToStr(v)[i]) THEN Num(StrToNat(ToStr(v)))
    ELSE Str(ToStr(v))

\* arr: the rows read back from the delimited text of one entry
CsvRows(csv) == [r \in DOMAIN csv |-> [c \in DOMAIN csv[r] |-> CsvCell(csv[r][c])]]

\* arr[0] / masterArr[0]
FirstRow(arr) == IF arr # <<>> THEN RowVal(arr[1]) ELSE Undef

\* arr.slice(1)
Slice1(arr) == IF arr = <<>> THEN <<>> ELSE Tail(arr)

\* the loop over mergedList: header after the loop, from entry i on
RECURSIVE LoopHeader(_, _, _)
LoopHeader(list, h, i) ==
    IF i > Len(list) THEN h
    ELSE LoopHeader(list, IF IsNullish(h) THEN FirstRow(CsvRows(list[i].csv)) ELSE h, i + 1)

\* the loop over mergedList: allRows after the loop, from entry i on
RECURSIVE LoopRows(_, _, _)
LoopRows(list, rows, i) ==
    IF i > Len(list) THEN rows
    ELSE LoopRows(list, rows \o Slice1(CsvRows(list[i].csv)), i + 1)

\* the master's header is kept only where the entries gave none
MasterHeader_EntriesFirst(h, masterArr) == IF IsNullish(h) THEN FirstRow(masterArr) ELSE h

\* header = masterArr[0]
MasterHeader(h, masterArr) == FirstRow(masterArr)

\* the workbook returned: one sheet 'MergedData' holding [header, ...allRows]
Workbook(h, rows) ==
    [SheetNames |-> <<"MergedData">>, finalArr |-> <<h.cells>> \o rows]

\* if (!header) return null; otherwise the workbook
CombineResult(h, rows) == IF IsNullish(h) THEN Null ELSE Workbook(h, rows)

MaxCombineFiles == 2

MasterHeaderRow == <<Str(<<"M">>), Str(S_Item)>>

\* the master file: null (none chosen), a file without rows, a header alone, and a
\* header with two data rows
MasterMenu ==
    { Null,
      RowVal(<<>>),
      RowVal(<<MasterHeaderRow>>),
      RowVal(<<MasterHeaderRow, <<Num(1), Str(<<"a">>)>>, <<Str(<<"0", "7">>)>>>>) }

CombineMenu == {<<>>, ItemSheet55, AltSheet55, AltSheetOther, BothSheet}

InitCombine ==
    /\ pc = "reading" /\ res = <<>>
    /\ \E m \in MasterMenu : arg = [masterFile |-> m]
    /\ \E len \in 0 .. MaxCombineFiles : files \in [1 .. len -> CombineMenu]
    /\ nread = 0 /\ sheets = <<>> /\ mergedList = <<>>
    /\ combinedHeader = Null /\ allRows = <<>>
    /\ PageIdle

\* merge has returned: the loop over its entries, and the return when there is no
\* master file to wait for
CombineEntries ==
    /\ pc = "done"
    /\ combinedHeader' = LoopHeader(mergedList, Null, 1)
    /\ allRows' = LoopRows(mergedList, <<>>, 1)
    /\ IF IsNullish(arg.masterFile)
       THEN /\ res' = CombineResult(combinedHeader', allRows')
            /\ pc' = "returned"
       ELSE /\ res' = res
            /\ pc' = "master"
    /\ UNCHANGED <<arg, files, nread, sheets, mergedList, pageVars>>

\* the master file has been read: its rows go first, its header replaces the header
CombineMaster ==
    /\ pc = "master"
    /\ LET masterArr == arg.masterFile.cells
       IN  /\ combinedHeader' =
                IF masterArr # <<>> THEN MasterHeader(combinedHeader, masterArr)
                ELSE combinedHeader
           /\ allRows' = IF masterArr # <<>> THEN Slice1(masterArr) \o allRows ELSE allRows
    /\ res' = CombineResult(combinedHeader', allRows')
    /\ pc' = "returned"
    /\ UNCHANGED <<arg, files, nread, sheets, mergedList, pageVars>>

NextCombine == ReadFile \/ MergeSheets \/ CombineEntries \/ CombineMaster

SpecCombine == InitCombine /\ [][NextCombine]_vars

\* the data rows of the entries from entry i on, as read back from their text
RECURSIVE EntryDataRows(_, _)
EntryDataRows(list, i) ==
    IF i > Len(list) THEN <<>>
    ELSE Slice1(CsvRows(list[i].csv)) \o EntryDataRows(list, i + 1)

\* a master grid is supplied: a master file is chosen and has a header row
MasterSupplied == ~IsNullish(arg.masterFile) /\ arg.masterFile.cells # <<>>

\* C7: with a supplied master grid the result's header row is the master's header
\* row, whatever the headers of the merged entries, and its data rows are the
\* master's data rows in order followed by the data rows of every merged entry in
\* the order merge produced them; with no merged entries and no master the result
\* is null.
C7_CombineWithMaster ==
    pc = "returned" =>
        /\ MasterSupplied =>
            /\ res # Null
            /\ res.finalArr[1] = arg.masterFile.cells[1]
            /\ Tail(res.finalArr) = Tail(arg.masterFile.cells) \o EntryDataRows(mergedList, 1)
        /\ (mergedList = <<>> /\ IsNullish(arg.masterFile)) => res = Null

\* C7's case: a master with data rows and another header than the entries', and two
\* merged entries
C7_Witness ==
    /\ pc = "returned" /\ MasterSupplied
    /\ Len(arg.masterFile.cells) > 1
    /\ Len(mergedList) >= 2
    /\ arg.masterFile.cells[1] # CsvRows(mergedList[1].csv)[1]
    /\ res # Null

\* C7's other case: nothing merged and no master file
C7_WitnessNull == pc = "returned" /\ mergedList = <<>> /\ IsNullish(arg.masterFile) /\ res = Null

---------------------------------------------------------------------------
(* the page script: file selection, the two buttons, the asynchronous runs.      *)
(* The elements the script looks up (both buttons, both spinners, the files      *)
(* input, the status line) exist.                                                *)

MaxSelected == 2
MaxRuns == 2

\* the page as parsed, before DOMContentLoaded: the script has set its two variables;
\* whether the markup disables a button or shows a spinner is not the script's choice
InitUI ==
    /\ FnIdle /\ MergeIdle
    /\ loaded = FALSE /\ selectedFiles = 0 /\ buttonDisabled = TRUE
    /\ mergeBtnDisabled \in BOOLEAN /\ masterBtnDisabled \in BOOLEAN
    /\ mergeSpinner \in BOOLEAN /\ masterSpinner \in BOOLEAN
    /\ status = "" /\ mergeRuns = 0 /\ masterRuns = 0

\* the DOMContentLoaded handler: the listeners are attached, updateButtonState()
\* runs, then setLoading(..., false) for each button, which writes btn.disabled last
DOMContentLoaded ==
    /\ ~loaded
    /\ loaded' = TRUE
    /\ buttonDisabled' = (selectedFiles = 0)
    /\ mergeBtnDisabled' = FALSE /\ mergeSpinner' = FALSE
    /\ masterBtnDisabled' = FALSE /\ masterSpinner' = FALSE
    /\ UNCHANGED <<fnVars, mergeVars, selectedFiles, status, mergeRuns, masterRuns>>

\* handleFileChange, with n files in the input, then updateButtonState()
handleFileChange(n) ==
    /\ loaded
    /\ selectedFiles' = n
    /\ buttonDisabled' = (n = 0)
    /\ mergeBtnDisabled' = buttonDisabled'
    /\ masterBtnDisabled' = buttonDisabled'
    /\ UNCHANGED <<fnVars, mergeVars, loaded, mergeSpinner, masterSpinner, status,
                   mergeRuns, masterRuns>>

\* a click on mergeBtn (a disabled button gives no click): downloadMergedFiles up to
\* its await
downloadMergedFiles ==
    /\ loaded /\ ~mergeBtnDisabled /\ mergeRuns < MaxRuns
    /\ IF selectedFiles = 0
       THEN /\ status' = "Please select files first"
            /\ UNCHANGED <<mergeBtnDisabled, mergeSpinner, mergeRuns>>
       ELSE /\ mergeBtnDisabled' = TRUE /\ mergeSpinner' = TRUE
            /\ status' = "Processing files..."
            /\ mergeRuns' = mergeRuns + 1
    /\ UNCHANGED <<fnVars, mergeVars, loaded, selectedFiles, buttonDisabled,
                   masterBtnDisabled, masterSpinner, masterRuns>>

\* merge settles for one run of downloadMergedFiles: the rest of the try, the catch,
\* and the finally, which runs on every path
MergeSettles(outcome) ==
    /\ mergeRuns > 0
    /\ mergeRuns' = mergeRuns - 1
    /\ status' = CASE outcome = "empty" -> "No data could be merged from the uploaded files"
                   [] outcome = "rejected" -> "Failed to process files"
                   [] OTHER -> "Successfully downloaded merged files"
    /\ mergeBtnDisabled' = FALSE /\ mergeSpinner' = FALSE
    /\ UNCHANGED <<fnVars, mergeVars, loaded, selectedFiles, buttonDisabled,
                   masterBtnDisabled, masterSpinner, masterRuns>>

\* a click on masterBtn: mergeAndDownloadMaster up to its await
mergeAndDownloadMaster ==
    /\ loaded /\ ~masterBtnDisabled /\ masterRuns < MaxRuns
    /\ IF selectedFiles = 0
       THEN /\ status' = "Please select files first"
            /\ UNCHANGED <<masterBtnDisabled, masterSpinner, masterRuns>>
       ELSE /\ masterBtnDisabled' = TRUE /\ masterSpinner' = TRUE
            /\ status' = "Processing files for master merge..."
            /\ masterRuns' = masterRuns + 1
    /\ UNCHANGED <<fnVars, mergeVars, loaded, selectedFiles, buttonDisabled,
                   mergeBtnDisabled, mergeSpinner, mergeRuns>>

\* combineMergedFiles settles for one run of mergeAndDownloadMaster
MasterSettles(outcome) ==
    /\ masterRuns > 0
    /\ masterRuns' = masterRuns - 1
    /\ status' = CASE outcome = "empty" -> "No data in combined file"
                   [] outcome = "rejected" -> "Failed to save the file"
                   [] OTHER -> "Master Excel file downloaded"
    /\ masterBtnDisabled' = FALSE /\ masterSpinner' = FALSE
    /\ UNCHANGED <<fnVars, mergeVars, loaded, selectedFiles, buttonDisabled,
                   mergeBtnDisabled, mergeSpinner, mergeRuns>>

Outcomes == {"empty", "rejected", "fulfilled"}

NextUI ==
    \/ DOMContentLoaded
    \/ \E n \in 0 .. MaxSelected : handleFileChange(n)
    \/ downloadMergedFiles
    \/ \E o \in Outcomes : MergeSettles(o)
    \/ mergeAndDownloadMaster
    \/ \E o \in Outcomes : MasterSettles(o)

SpecUI == InitUI /\ [][NextUI]_vars

\* C10: once the page is loaded, under every interleaving of file-selection changes,
\* clicks and completions, each button is disabled whenever no file is selected and
\* whenever a run started from it is still in progress, so that no second run of
\* downloadMergedFiles or of mergeAndDownloadMaster starts before the first finished.
C10_ButtonsDisabledWhileIdleOrRunning ==
    loaded =>
        /\ selectedFiles = 0 => mergeBtnDisabled /\ masterBtnDisabled
        /\ mergeRuns > 0 => mergeBtnDisabled
        /\ masterRuns > 0 => masterBtnDisabled
        /\ mergeRuns <= 1 /\ masterRuns <= 1

===========================================================================
